---- MODULE Spec2Model ----
(***************************************************************************)
(* A model of the atscppapi request descriptor (Request.cc) and of the     *)
(* hook protocol that Plugin.h declares.                                    *)
(*                                                                          *)
(* Spec     : one Request object, from construction to destruction, beside  *)
(*            an engine whose method token and protocol version may change  *)
(*            out-of-band.                                                  *)
(* SpecTxn  : the phases of several Transactions, dispatched to plugin      *)
(*            handlers that resume inline or later.                         *)
(***************************************************************************)
EXTENDS Integers, Sequences, FiniteSets, TLC

VARIABLES
  state_,       \* the RequestState record of the Request object
  life,         \* "unborn" | "alive" | "destroyed"
  ctor,         \* which constructor built the object, and with which arguments
  engine,       \* what the engine holds for the header: method token, version
  engineChanged, \* has the engine's header changed out-of-band
  qMethod,      \* calls of TSHttpHdrMethodGet so far
  qVersion,     \* calls of utils::internal::getHttpVersion so far
  engineCalls,  \* the release / destroy calls the engine has received, in order
  errors,       \* LOG_ERROR lines written so far
  last,         \* the last operation and what it returned
  txn,          \* per Transaction: the hook protocol's state
  fired,        \* per Transaction: the latest ordered phase dispatched
  signals,      \* per Transaction: the latest ordered phase the engine was told to continue
  lastFire,     \* the latest dispatch: Transaction, hook, handlers, resume calls
  cmp           \* the comparator's strings and, once compared, its results

reqVars == <<state_, life, ctor, engine, engineChanged, qMethod, qVersion,
             engineCalls, errors, last>>
txnVars == <<txn, fired, signals, lastFire>>
cmpVars == <<cmp>>
vars == <<state_, life, ctor, engine, engineChanged, qMethod, qVersion,
          engineCalls, errors, last, txn, fired, signals, lastFire, cmp>>

(***************************************************************************)
(* Bounds of the exploration.                                               *)
(***************************************************************************)
MaxQueries == 2
MaxErrors == 2
MaxHandlers == 2
MaxPending == 1
MaxStrLen == 2

(***************************************************************************)
(* Handles.  NULL is the null pointer; the others are opaque engine values. *)
(***************************************************************************)
NULL == "NULL"
EngineBuf == "buf"
EngineLoc == "loc"
PrivateBuf == "private_buf"
UrlLoc == "url_loc"

\* The methods and versions the exploration passes to the standalone constructor.
CtorMethods == {"HTTP_METHOD_UNKNOWN", "HTTP_METHOD_POST"}
CtorVersions == {"HTTP_VERSION_UNKNOWN", "HTTP_VERSION_1_1"}

BufArgs == {NULL, EngineBuf}
LocArgs == {NULL, EngineLoc}

HTTP_METHOD_UNKNOWN == "HTTP_METHOD_UNKNOWN"
HttpMethod ==
  { HTTP_METHOD_UNKNOWN, "HTTP_METHOD_GET", "HTTP_METHOD_POST", "HTTP_METHOD_HEAD",
    "HTTP_METHOD_CONNECT", "HTTP_METHOD_DELETE", "HTTP_METHOD_ICP_QUERY",
    "HTTP_METHOD_OPTIONS", "HTTP_METHOD_PURGE", "HTTP_METHOD_PUT",
    "HTTP_METHOD_TRACE" }

HTTP_VERSION_UNKNOWN == "HTTP_VERSION_UNKNOWN"
HttpVersion == { HTTP_VERSION_UNKNOWN, "HTTP_VERSION_1_0", "HTTP_VERSION_1_1" }

\* The engine's well-known method strings, compared by pointer in getMethod.
KnownTokens ==
  { "GET", "POST", "HEAD", "CONNECT", "DELETE", "ICP_QUERY", "OPTIONS",
    "PURGE", "PUT", "TRACE" }
\* What TSHttpHdrMethodGet can hand back: a well-known string, another
\* string, a string of length zero, or no string at all.
NullStr == "<null>"
MethodTokens == KnownTokens \cup { "PATCH", "", NullStr }

(***************************************************************************)
(* InitializableValue<T>: a value and whether it has been set.              *)
(***************************************************************************)
InitializableValue(value, initialized) ==
  [value |-> value, initialized |-> initialized]
setValue(iv, value) == [value |-> value, initialized |-> TRUE]
isInitialized(iv) == iv.initialized
getValue(iv) == iv.value

(***************************************************************************)
(* RequestState::RequestState()                                             *)
(***************************************************************************)
RequestState ==
  [ hdr_buf_ |-> NULL, hdr_loc_ |-> NULL, url_loc_ |-> NULL,
    url_ |-> FALSE,            \* Url: has init() been called on it
    headers_ |-> "unset",      \* Headers: "unset" | "attached" | "detached"
    method_ |-> InitializableValue(HTTP_METHOD_UNKNOWN, FALSE),
    version_ |-> InitializableValue(HTTP_VERSION_UNKNOWN, FALSE),
    destroy_buf_ |-> FALSE ]

\* What is remembered of the construction and of the init calls: the
\* constructor and its arguments, the arguments of the first init call that
\* had a non-null argument (<<>> before it), and whether an init call with two
\* null arguments was let through.
NoCtor == [kind |-> "none", method |-> HTTP_METHOD_UNKNOWN,
           version |-> HTTP_VERSION_UNKNOWN, url |-> "none",
           attach |-> <<>>, nullInit |-> FALSE]

noteInit(c, s, hdr_buf, hdr_loc) ==
  [c EXCEPT
     !.attach = IF @ = <<>> /\ (hdr_buf # NULL \/ hdr_loc # NULL)
                THEN <<hdr_buf, hdr_loc>> ELSE @,
     !.nullInit = @ \/ (hdr_buf = NULL /\ hdr_loc = NULL
                         /\ s.hdr_buf_ = NULL /\ s.hdr_loc_ = NULL)]

Op(name, ret) == [op |-> name, ret |-> ret]

\* LOG_ERROR: n more lines, while the log has room.
LogError(n) == errors + n <= MaxErrors /\ errors' = errors + n

(***************************************************************************)
(* Request::init(hdr_buf, hdr_loc), as a function of the state: the new     *)
(* state and the number of errors logged.  urlGet is what TSHttpHdrUrlGet   *)
(* stores in url_loc_ (NULL when it stores nothing).                        *)
(***************************************************************************)
\* init that refuses only a descriptor holding both handles
IsReinitialization_BothHandles(s) == s.hdr_buf_ # NULL /\ s.hdr_loc_ # NULL

\* init that refuses only a descriptor holding a buffer handle
IsReinitialization_BufferOnly(s) == s.hdr_buf_ # NULL

\* init that refuses only a descriptor holding a location handle
IsReinitialization_LocOnly(s) == s.hdr_loc_ # NULL

IsReinitialization(s) == s.hdr_buf_ # NULL \/ s.hdr_loc_ # NULL

\* TSHttpHdrUrlGet: the engine finds a URL location only in a header it is
\* given, and then it may still find none.
TSHttpHdrUrlGet(hdr_buf, hdr_loc, found) ==
  IF hdr_buf # NULL /\ hdr_loc # NULL THEN found ELSE NULL

\* init that initializes the Url without a URL location
initState_UrlInitWithoutLoc(s, hdr_buf, hdr_loc, urlGet) ==
  IF s.hdr_buf_ # NULL \/ s.hdr_loc_ # NULL
  THEN [st |-> s, logged |-> 1]
  ELSE LET s1 == [s EXCEPT !.hdr_buf_ = hdr_buf, !.hdr_loc_ = hdr_loc,
                           !.headers_ = "attached",
                           !.url_loc_ = TSHttpHdrUrlGet(hdr_buf, hdr_loc, urlGet),
                           !.url_ = TRUE]
       IN [st |-> s1, logged |-> IF s1.url_loc_ = NULL THEN 1 ELSE 0]

initState(s, hdr_buf, hdr_loc, urlGet) ==
  IF IsReinitialization(s)
  THEN [st |-> s, logged |-> 1]
  ELSE LET s1 == [s EXCEPT !.hdr_buf_ = hdr_buf, !.hdr_loc_ = hdr_loc,
                           !.headers_ = "attached",
                           !.url_loc_ = TSHttpHdrUrlGet(hdr_buf, hdr_loc, urlGet)]
       IN IF s1.url_loc_ = NULL
          THEN [st |-> s1, logged |-> 1]
          ELSE [st |-> [s1 EXCEPT !.url_ = TRUE], logged |-> 0]

\* Request::Request()
Request_default ==
  /\ life = "unborn"
  /\ state_' = RequestState
  /\ life' = "alive"
  /\ ctor' = [NoCtor EXCEPT !.kind = "default"]
  /\ last' = Op("Request()", "void")
  /\ UNCHANGED <<engine, engineChanged, qMethod, qVersion, engineCalls, errors>>
  /\ UNCHANGED <<txnVars, cmpVars>>

\* Request::Request(void *hdr_buf, void *hdr_loc)
Request_handles(hdr_buf, hdr_loc, urlGet) ==
  /\ life = "unborn"
  /\ LET r == initState(RequestState, hdr_buf, hdr_loc, urlGet)
     IN /\ state_' = r.st
        /\ LogError(r.logged)
  /\ life' = "alive"
  /\ ctor' = noteInit([NoCtor EXCEPT !.kind = "handles"], RequestState, hdr_buf, hdr_loc)
  /\ last' = Op("Request(buf,loc)", <<hdr_buf, hdr_loc>>)
  /\ UNCHANGED <<engine, engineChanged, qMethod, qVersion, engineCalls>>
  /\ UNCHANGED <<txnVars, cmpVars>>

(***************************************************************************)
(* Request::Request(url_str, method, version).  urlOutcome is what the      *)
(* engine does with the URL: "create_failed" (TSUrlCreate fails),           *)
(* "parse_failed" (TSUrlParse does not end in TS_PARSE_DONE) or "parsed".   *)
(***************************************************************************)
UrlOutcomes == {"create_failed", "parse_failed", "parsed"}

\* a standalone constructor that forgets to store the method
standaloneState_MethodNotStored(method, version, urlOutcome) ==
  LET s1 == [RequestState EXCEPT
               !.version_ = setValue(@, version),
               !.destroy_buf_ = TRUE,
               !.hdr_buf_ = PrivateBuf,
               !.headers_ = "detached"]
  IN IF urlOutcome # "create_failed"
     THEN LET s2 == [s1 EXCEPT !.url_loc_ = UrlLoc]
          IN IF urlOutcome # "parsed"
             THEN [st |-> s2, logged |-> 1]
             ELSE [st |-> [s2 EXCEPT !.url_ = TRUE], logged |-> 0]
     ELSE [st |-> [s1 EXCEPT !.url_loc_ = NULL], logged |-> 1]

\* a standalone constructor that initializes the Url whatever TSUrlParse returned
standaloneState_UrlInitAfterFailedParse(method, version, urlOutcome) ==
  LET s1 == [RequestState EXCEPT
               !.method_ = setValue(@, method),
               !.version_ = setValue(@, version),
               !.destroy_buf_ = TRUE,
               !.hdr_buf_ = PrivateBuf,
               !.headers_ = "detached"]
  IN IF urlOutcome # "create_failed"
     THEN [st |-> [s1 EXCEPT !.url_loc_ = UrlLoc, !.url_ = TRUE],
           logged |-> IF urlOutcome # "parsed" THEN 1 ELSE 0]
     ELSE [st |-> [s1 EXCEPT !.url_loc_ = NULL], logged |-> 1]

\* a standalone constructor that clears url_loc_ when the parse fails
standaloneState_UrlLocClearedOnParseFailure(method, version, urlOutcome) ==
  LET s1 == [RequestState EXCEPT
               !.method_ = setValue(@, method),
               !.version_ = setValue(@, version),
               !.destroy_buf_ = TRUE,
               !.hdr_buf_ = PrivateBuf,
               !.headers_ = "detached"]
  IN IF urlOutcome = "parsed"
     THEN [st |-> [s1 EXCEPT !.url_loc_ = UrlLoc, !.url_ = TRUE], logged |-> 0]
     ELSE [st |-> [s1 EXCEPT !.url_loc_ = NULL], logged |-> 1]

standaloneState(method, version, urlOutcome) ==
  LET s1 == [RequestState EXCEPT
               !.method_ = setValue(@, method),
               !.version_ = setValue(@, version),
               !.destroy_buf_ = TRUE,
               !.hdr_buf_ = PrivateBuf,
               !.headers_ = "detached"]
  IN IF urlOutcome # "create_failed"
     THEN LET s2 == [s1 EXCEPT !.url_loc_ = UrlLoc]
          IN IF urlOutcome # "parsed"
             THEN [st |-> s2, logged |-> 1]
             ELSE [st |-> [s2 EXCEPT !.url_ = TRUE], logged |-> 0]
     ELSE [st |-> [s1 EXCEPT !.url_loc_ = NULL], logged |-> 1]

Request_standalone(method, version, urlOutcome) ==
  /\ life = "unborn"
  /\ LET r == standaloneState(method, version, urlOutcome)
     IN /\ state_' = r.st
        /\ LogError(r.logged)
  /\ life' = "alive"
  /\ ctor' = [NoCtor EXCEPT !.kind = "standalone", !.method = method,
                            !.version = version, !.url = urlOutcome]
  /\ last' = Op("Request(url,method,version)", "void")
  /\ UNCHANGED <<engine, engineChanged, qMethod, qVersion, engineCalls>>
  /\ UNCHANGED <<txnVars, cmpVars>>

\* Request::init(hdr_buf, hdr_loc)
init(hdr_buf, hdr_loc, urlGet) ==
  /\ life = "alive"
  /\ LET r == initState(state_, hdr_buf, hdr_loc, urlGet)
     IN /\ state_' = r.st
        /\ LogError(r.logged)
  /\ ctor' = noteInit(ctor, state_, hdr_buf, hdr_loc)
  /\ last' = Op("init", <<hdr_buf, hdr_loc>>)
  /\ UNCHANGED <<life, engine, engineChanged, qMethod, qVersion, engineCalls>>
  /\ UNCHANGED <<txnVars, cmpVars>>

(***************************************************************************)
(* Request::getMethod().  tokenChain is the if / else-if chain that maps    *)
(* the engine's token to a method; a token outside the chain assigns        *)
(* nothing.                                                                 *)
(***************************************************************************)
\* a chain with the PUT and PURGE branches exchanged
tokenChain_PutPurgeExchanged(method_, method_str) ==
  IF method_str = "GET" THEN setValue(method_, "HTTP_METHOD_GET")
  ELSE IF method_str = "POST" THEN setValue(method_, "HTTP_METHOD_POST")
  ELSE IF method_str = "HEAD" THEN setValue(method_, "HTTP_METHOD_HEAD")
  ELSE IF method_str = "CONNECT" THEN setValue(method_, "HTTP_METHOD_CONNECT")
  ELSE IF method_str = "DELETE" THEN setValue(method_, "HTTP_METHOD_DELETE")
  ELSE IF method_str = "ICP_QUERY" THEN setValue(method_, "HTTP_METHOD_ICP_QUERY")
  ELSE IF method_str = "OPTIONS" THEN setValue(method_, "HTTP_METHOD_OPTIONS")
  ELSE IF method_str = "PURGE" THEN setValue(method_, "HTTP_METHOD_PUT")
  ELSE IF method_str = "PUT" THEN setValue(method_, "HTTP_METHOD_PURGE")
  ELSE IF method_str = "TRACE" THEN setValue(method_, "HTTP_METHOD_TRACE")
  ELSE method_

tokenChain(method_, method_str) ==
  IF method_str = "GET" THEN setValue(method_, "HTTP_METHOD_GET")
  ELSE IF method_str = "POST" THEN setValue(method_, "HTTP_METHOD_POST")
  ELSE IF method_str = "HEAD" THEN setValue(method_, "HTTP_METHOD_HEAD")
  ELSE IF method_str = "CONNECT" THEN setValue(method_, "HTTP_METHOD_CONNECT")
  ELSE IF method_str = "DELETE" THEN setValue(method_, "HTTP_METHOD_DELETE")
  ELSE IF method_str = "ICP_QUERY" THEN setValue(method_, "HTTP_METHOD_ICP_QUERY")
  ELSE IF method_str = "OPTIONS" THEN setValue(method_, "HTTP_METHOD_OPTIONS")
  ELSE IF method_str = "PURGE" THEN setValue(method_, "HTTP_METHOD_PURGE")
  ELSE IF method_str = "PUT" THEN setValue(method_, "HTTP_METHOD_PUT")
  ELSE IF method_str = "TRACE" THEN setValue(method_, "HTTP_METHOD_TRACE")
  ELSE method_

\* method_len as TSHttpHdrMethodGet reports it
method_len(method_str) == IF method_str = NullStr THEN 0 ELSE Len(method_str)

\* a getMethod that does not look at the initialized flag
getMethodQueries_IgnoresInitialized(s) == s.hdr_buf_ # NULL /\ s.hdr_loc_ # NULL

\* a getMethod that asks for the buffer handle only
getMethodQueries_BufferOnly(s) == ~isInitialized(s.method_) /\ s.hdr_buf_ # NULL

\* The condition under which getMethod asks the engine.
getMethodQueries(s) ==
  ~isInitialized(s.method_) /\ s.hdr_buf_ # NULL /\ s.hdr_loc_ # NULL

getMethodState(s, method_str) ==
  IF getMethodQueries(s)
  THEN IF method_str # NullStr /\ method_len(method_str) # 0
       THEN [st |-> [s EXCEPT !.method_ = tokenChain(@, method_str)],
             queried |-> 1, logged |-> 0]
       ELSE [st |-> s, queried |-> 1, logged |-> 1]
  ELSE [st |-> s, queried |-> 0, logged |-> 0]

getMethod ==
  /\ life = "alive"
  /\ LET r == getMethodState(state_, engine.token)
     IN /\ state_' = r.st
        /\ qMethod + r.queried <= MaxQueries
        /\ qMethod' = qMethod + r.queried
        /\ LogError(r.logged)
        /\ last' = Op("getMethod", getValue(r.st.method_))
  /\ UNCHANGED <<life, ctor, engine, engineChanged, qVersion, engineCalls>>
  /\ UNCHANGED <<txnVars, cmpVars>>

(***************************************************************************)
(* Request::getVersion().  utils::internal::getHttpVersion decodes the      *)
(* engine's protocol version of the header.                                 *)
(***************************************************************************)
getHttpVersion(e) == e.version

getVersionQueries(s) ==
  ~isInitialized(s.version_) /\ s.hdr_buf_ # NULL /\ s.hdr_loc_ # NULL

\* a getVersion that stores only a version the decoder recognized
getVersionState_UnknownNotCached(s, e) ==
  IF ~isInitialized(s.version_) /\ s.hdr_buf_ # NULL /\ s.hdr_loc_ # NULL
  THEN [st |-> IF e.version # HTTP_VERSION_UNKNOWN
               THEN [s EXCEPT !.version_ = setValue(@, e.version)] ELSE s,
        queried |-> 1]
  ELSE [st |-> s, queried |-> 0]

\* a getVersion that resets the method when it asks the engine
getVersionState_ResetsMethod(s, e) ==
  IF ~isInitialized(s.version_) /\ s.hdr_buf_ # NULL /\ s.hdr_loc_ # NULL
  THEN [st |-> [s EXCEPT !.version_ = setValue(@, e.version),
                         !.method_ = InitializableValue(HTTP_METHOD_UNKNOWN, FALSE)],
        queried |-> 1]
  ELSE [st |-> s, queried |-> 0]

getVersionState(s, e) ==
  IF getVersionQueries(s)
  THEN [st |-> [s EXCEPT !.version_ = setValue(@, getHttpVersion(e))], queried |-> 1]
  ELSE [st |-> s, queried |-> 0]

getVersion ==
  /\ life = "alive"
  /\ LET r == getVersionState(state_, engine)
     IN /\ state_' = r.st
        /\ qVersion + r.queried <= MaxQueries
        /\ qVersion' = qVersion + r.queried
        /\ last' = Op("getVersion", getValue(r.st.version_))
  /\ UNCHANGED <<life, ctor, engine, engineChanged, qMethod, engineCalls, errors>>
  /\ UNCHANGED <<txnVars, cmpVars>>

\* Request::getUrl(): a reference to url_
getUrl ==
  /\ life = "alive"
  /\ last' = Op("getUrl", IF state_.url_ THEN "url" ELSE "url_unset")
  /\ UNCHANGED <<state_, life, ctor, engine, engineChanged, qMethod, qVersion,
                 engineCalls, errors>>
  /\ UNCHANGED <<txnVars, cmpVars>>

\* Request::getHeaders(): a reference to headers_
getHeaders ==
  /\ life = "alive"
  /\ last' = Op("getHeaders", state_.headers_)
  /\ UNCHANGED <<state_, life, ctor, engine, engineChanged, qMethod, qVersion,
                 engineCalls, errors>>
  /\ UNCHANGED <<txnVars, cmpVars>>

(***************************************************************************)
(* Request::~Request(): the engine calls it makes, in order.                *)
(***************************************************************************)
TSHandleMLocRelease(bufp, parent, mloc) ==
  [call |-> "TSHandleMLocRelease", bufp |-> bufp, parent |-> parent, mloc |-> mloc]
TSMBufferDestroy(bufp) ==
  [call |-> "TSMBufferDestroy", bufp |-> bufp, parent |-> NULL, mloc |-> NULL]

\* a destructor that takes the owning path whatever destroy_buf_ says
dtorCalls_IgnoresOwnership(s) ==
  IF s.url_loc_ # NULL
  THEN << TSHandleMLocRelease(s.hdr_buf_, NULL, s.url_loc_),
          TSMBufferDestroy(s.hdr_buf_) >>
  ELSE << >>

\* a destructor that destroys the buffer before it releases the URL location
dtorCalls_DestroyFirst(s) ==
  IF s.url_loc_ # NULL
  THEN IF s.destroy_buf_
       THEN << TSMBufferDestroy(s.hdr_buf_),
               TSHandleMLocRelease(s.hdr_buf_, NULL, s.url_loc_) >>
       ELSE << TSHandleMLocRelease(s.hdr_buf_, s.hdr_loc_, s.url_loc_) >>
  ELSE << >>

dtorCalls(s) ==
  IF s.url_loc_ # NULL
  THEN IF s.destroy_buf_
       THEN << TSHandleMLocRelease(s.hdr_buf_, NULL, s.url_loc_),
               TSMBufferDestroy(s.hdr_buf_) >>
       ELSE << TSHandleMLocRelease(s.hdr_buf_, s.hdr_loc_, s.url_loc_) >>
  ELSE << >>

Request_dtor ==
  /\ life = "alive"
  /\ engineCalls' = engineCalls \o dtorCalls(state_)
  /\ life' = "destroyed"
  /\ last' = Op("~Request", "void")
  /\ UNCHANGED <<state_, ctor, engine, engineChanged, qMethod, qVersion, errors>>
  /\ UNCHANGED <<txnVars, cmpVars>>

(***************************************************************************)
(* The engine's header changes under the descriptor (another plugin, the    *)
(* engine itself): a new method token or a new protocol version.  A         *)
(* standalone descriptor has no engine header under it.  One such change    *)
(* per run is explored.                                                     *)
(***************************************************************************)
EngineWrite(tok, ver) ==
  /\ life = "alive"
  /\ ctor.kind # "standalone"
  /\ engineChanged = FALSE
  /\ (tok = engine.token) # (ver = engine.version)   \* one field at a time
  /\ engine' = [token |-> tok, version |-> ver]
  /\ engineChanged' = TRUE
  /\ last' = Op("engineWrite", "void")
  /\ UNCHANGED <<state_, life, ctor, qMethod, qVersion, engineCalls, errors>>
  /\ UNCHANGED <<txnVars, cmpVars>>

(***************************************************************************)
(* Plugin::HookType and the hook protocol.                                  *)
(***************************************************************************)
Txns == {"t1", "t2"}

HookType ==
  { "HOOK_READ_REQUEST_HEADERS_PRE_REMAP", "HOOK_READ_REQUEST_HEADERS_POST_REMAP",
    "HOOK_SEND_REQUEST_HEADERS", "HOOK_READ_RESPONSE_HEADERS",
    "HOOK_SEND_RESPONSE_HEADERS", "HOOK_OS_DNS" }

\* the first two enumerators exchanged
HookValue_Swapped(h) ==
  CASE h = "HOOK_READ_REQUEST_HEADERS_PRE_REMAP" -> 1
    [] h = "HOOK_READ_REQUEST_HEADERS_POST_REMAP" -> 0
    [] h = "HOOK_SEND_REQUEST_HEADERS" -> 2
    [] h = "HOOK_READ_RESPONSE_HEADERS" -> 3
    [] h = "HOOK_SEND_RESPONSE_HEADERS" -> 4
    [] h = "HOOK_OS_DNS" -> 5

\* The enumerators' values.
HookValue(h) ==
  CASE h = "HOOK_READ_REQUEST_HEADERS_PRE_REMAP" -> 0
    [] h = "HOOK_READ_REQUEST_HEADERS_POST_REMAP" -> 1
    [] h = "HOOK_SEND_REQUEST_HEADERS" -> 2
    [] h = "HOOK_READ_RESPONSE_HEADERS" -> 3
    [] h = "HOOK_SEND_RESPONSE_HEADERS" -> 4
    [] h = "HOOK_OS_DNS" -> 5

\* A Transaction with respect to its current firing.
NewTransaction ==
  [ state |-> "Idle",     \* "Idle" | "Dispatched" | "Suspended" | "Resumed"
    hook |-> "none",      \* the phase of the current firing
    dns |-> FALSE,        \* has HOOK_OS_DNS been fired
    pending |-> 0,        \* handlers that returned without resuming, and have not yet
    resumeCalls |-> 0,    \* calls of resume() in the call in progress (0 between calls)
    engineSignals |-> 0 ] \* continue signals the engine got for the current firing

NoFire == [t |-> "none", hook |-> "none", nDefault |-> 0, nAsync |-> 0, resumeCalls |-> 0]

(***************************************************************************)
(* Transaction::resume(): the signal that hands the phase back to the       *)
(* engine; a second resume of the same firing is logged and does nothing.   *)
(***************************************************************************)
resume(transaction) ==
  IF transaction.state = "Resumed"
  THEN [transaction EXCEPT !.resumeCalls = @ + 1]
  ELSE [transaction EXCEPT !.state = "Resumed", !.resumeCalls = @ + 1,
                           !.engineSignals = @ + 1]

\* handlers that return without resuming
handleReadRequestHeadersPreRemap_NoResume(transaction) == transaction
handleOsDns_NoResume(transaction) == transaction

\* The six handlers of Plugin, as Plugin.h defines them.
handleReadRequestHeadersPreRemap(transaction) == resume(transaction)
handleReadRequestHeadersPostRemap(transaction) == resume(transaction)
handleSendRequestHeaders(transaction) == resume(transaction)
handleReadResponseHeaders(transaction) == resume(transaction)
handleSendResponseHeaders(transaction) == resume(transaction)
handleOsDns(transaction) == resume(transaction)

\* A handler a plugin overrides to resume later: it returns without resuming.
asyncHandler(transaction) == [transaction EXCEPT !.pending = @ + 1]

\* The handler kinds a registration can hold.
HandlerKinds == {"default", "async"}
HandlerLists == UNION { [1..n -> HandlerKinds] : n \in 1..MaxHandlers }
Count(hs, k) == Cardinality({i \in DOMAIN hs : hs[i] = k})

\* The dispatcher calls the handler of the plugin for the hook.
invokePluginForEvent(kind, h, transaction) ==
  IF kind = "async" THEN asyncHandler(transaction)
  ELSE CASE h = "HOOK_READ_REQUEST_HEADERS_PRE_REMAP" ->
              handleReadRequestHeadersPreRemap(transaction)
         [] h = "HOOK_READ_REQUEST_HEADERS_POST_REMAP" ->
              handleReadRequestHeadersPostRemap(transaction)
         [] h = "HOOK_SEND_REQUEST_HEADERS" -> handleSendRequestHeaders(transaction)
         [] h = "HOOK_READ_RESPONSE_HEADERS" -> handleReadResponseHeaders(transaction)
         [] h = "HOOK_SEND_RESPONSE_HEADERS" -> handleSendResponseHeaders(transaction)
         [] h = "HOOK_OS_DNS" -> handleOsDns(transaction)

\* The dispatcher invokes the registered handlers in order.
RECURSIVE invokeAll(_, _, _)
invokeAll(hs, h, transaction) ==
  IF hs = <<>> THEN transaction
  ELSE invokeAll(Tail(hs), h, invokePluginForEvent(Head(hs), h, transaction))

dispatch(hs, h, transaction) ==
  LET t0 == [transaction EXCEPT !.state = "Dispatched", !.hook = h,
                                !.dns = (@ \/ h = "HOOK_OS_DNS"),
                                !.resumeCalls = 0, !.engineSignals = 0]
      t1 == invokeAll(hs, h, t0)
  IN IF t1.state = "Dispatched" THEN [t1 EXCEPT !.state = "Suspended"] ELSE t1

Ordered(h) == h # "HOOK_OS_DNS"

\* May the engine fire h on a Transaction now: one phase at a time, the
\* ordered phases in their order, HOOK_OS_DNS once at any point.
mayFire(transaction, lastFired, h) ==
  /\ transaction.state # "Suspended"
  /\ IF Ordered(h)
     THEN (IF lastFired = "none" THEN TRUE ELSE HookValue(lastFired) < HookValue(h))
     ELSE ~transaction.dns

\* The engine fires phase h on Transaction t; hs are the handlers registered for it.
Fire(t, h, hs) ==
  /\ mayFire(txn[t], fired[t], h)
  /\ txn[t].pending + Count(hs, "async") <= MaxPending
  /\ LET t1 == dispatch(hs, h, txn[t])
     IN /\ txn' = [txn EXCEPT ![t] = [t1 EXCEPT !.resumeCalls = 0]]
        /\ signals' = [signals EXCEPT ![t] =
                         IF Ordered(h) /\ t1.engineSignals > 0 THEN h ELSE @]
        /\ lastFire' = [t |-> t, hook |-> h, nDefault |-> Count(hs, "default"),
                        nAsync |-> Count(hs, "async"), resumeCalls |-> t1.resumeCalls]
  /\ fired' = [fired EXCEPT ![t] = IF Ordered(h) THEN h ELSE @]
  /\ UNCHANGED <<reqVars, cmpVars>>

\* A handler that returned without resuming calls resume() now.
AsyncResume(t) ==
  /\ txn[t].pending > 0
  /\ LET t1 == resume([txn[t] EXCEPT !.pending = @ - 1])
     IN /\ txn' = [txn EXCEPT ![t] = [t1 EXCEPT !.resumeCalls = 0]]
        /\ signals' = [signals EXCEPT ![t] =
                         IF Ordered(t1.hook) /\ t1.engineSignals > txn[t].engineSignals
                         THEN t1.hook ELSE @]
  /\ UNCHANGED <<fired, lastFire>>
  /\ UNCHANGED <<reqVars, cmpVars>>

(***************************************************************************)
(* CaseInsensitiveStringComparator.  A string is a sequence of bytes; the    *)
(* exploration takes them from a small alphabet: 'A', 'a', 'b' and a byte    *)
(* outside ASCII.                                                            *)
(***************************************************************************)
Bytes == {65, 97, 98, 200}
Strings == UNION { [1..n -> Bytes] : n \in 0..MaxStrLen }

\* a fold that leaves every byte as it is
foldByte_Identity(c) == c

\* ASCII case folding of one byte
foldByte(c) == IF c >= 65 /\ c <= 90 THEN c + 32 ELSE c

\* the comparison of the first n bytes after folding: the difference of the
\* first pair of folded bytes that differ, 0 when none does
RECURSIVE foldedPrefixCompare(_, _, _, _)
foldedPrefixCompare(lhs, rhs, i, n) ==
  IF i > n THEN 0
  ELSE IF foldByte(lhs[i]) # foldByte(rhs[i])
       THEN foldByte(lhs[i]) - foldByte(rhs[i])
       ELSE foldedPrefixCompare(lhs, rhs, i + 1, n)

\* CaseInsensitiveStringComparator::compare
compare(lhs, rhs) ==
  LET n == IF Len(lhs) < Len(rhs) THEN Len(lhs) ELSE Len(rhs)
      r == foldedPrefixCompare(lhs, rhs, 1, n)
  IN IF r # 0 THEN r
     ELSE IF Len(lhs) < Len(rhs) THEN -1
     ELSE IF Len(lhs) > Len(rhs) THEN 1
     ELSE 0

\* CaseInsensitiveStringComparator::operator()
lessThan(lhs, rhs) == compare(lhs, rhs) < 0

NoCmp == [pc |-> "idle", a |-> <<>>, b |-> <<>>, c |-> <<>>,
          ab |-> 0, ba |-> 0, aa |-> 0,
          lt_ab |-> FALSE, lt_ba |-> FALSE, lt_bc |-> FALSE, lt_cb |-> FALSE,
          lt_ac |-> FALSE, lt_ca |-> FALSE, lt_aa |-> FALSE]

\* The comparator is applied to the pairs of three strings.
Compare ==
  /\ cmp.pc = "input"
  /\ cmp' = [cmp EXCEPT
               !.pc = "compared",
               !.ab = compare(cmp.a, cmp.b), !.ba = compare(cmp.b, cmp.a),
               !.aa = compare(cmp.a, cmp.a),
               !.lt_ab = lessThan(cmp.a, cmp.b), !.lt_ba = lessThan(cmp.b, cmp.a),
               !.lt_bc = lessThan(cmp.b, cmp.c), !.lt_cb = lessThan(cmp.c, cmp.b),
               !.lt_ac = lessThan(cmp.a, cmp.c), !.lt_ca = lessThan(cmp.c, cmp.a),
               !.lt_aa = lessThan(cmp.a, cmp.a)]
  /\ UNCHANGED <<reqVars, txnVars>>

InitCmp ==
  /\ state_ = RequestState
  /\ life = "unborn"
  /\ ctor = NoCtor
  /\ engine = [token |-> "GET", version |-> "HTTP_VERSION_1_1"]
  /\ engineChanged = FALSE
  /\ qMethod = 0
  /\ qVersion = 0
  /\ engineCalls = <<>>
  /\ errors = 0
  /\ last = Op("none", "void")
  /\ txn = [t \in Txns |-> NewTransaction]
  /\ fired = [t \in Txns |-> "none"]
  /\ signals = [t \in Txns |-> "none"]
  /\ lastFire = NoFire
  /\ \E a \in Strings, b \in Strings, c \in Strings :
       cmp = [NoCmp EXCEPT !.pc = "input", !.a = a, !.b = b, !.c = c]

NextCmp == Compare

SpecCmp == InitCmp /\ [][NextCmp]_vars

InitTxn ==
  /\ state_ = RequestState
  /\ life = "unborn"
  /\ ctor = NoCtor
  /\ engine = [token |-> "GET", version |-> "HTTP_VERSION_1_1"]
  /\ engineChanged = FALSE
  /\ qMethod = 0
  /\ qVersion = 0
  /\ engineCalls = <<>>
  /\ errors = 0
  /\ last = Op("none", "void")
  /\ txn = [t \in Txns |-> NewTransaction]
  /\ fired = [t \in Txns |-> "none"]
  /\ signals = [t \in Txns |-> "none"]
  /\ lastFire = NoFire
  /\ cmp = NoCmp

NextTxn ==
  \/ \E t \in Txns, h \in HookType, hs \in HandlerLists : Fire(t, h, hs)
  \/ \E t \in Txns : AsyncResume(t)

SpecTxn == InitTxn /\ [][NextTxn]_vars

Init ==
  /\ state_ = RequestState
  /\ life = "unborn"
  /\ ctor = NoCtor
  /\ engine \in [token : MethodTokens, version : HttpVersion]
  /\ engineChanged = FALSE
  /\ qMethod = 0
  /\ qVersion = 0
  /\ engineCalls = <<>>
  /\ errors = 0
  /\ last = Op("none", "void")
  /\ txn = [t \in Txns |-> NewTransaction]
  /\ fired = [t \in Txns |-> "none"]
  /\ signals = [t \in Txns |-> "none"]
  /\ lastFire = NoFire
  /\ cmp = NoCmp

Next ==
  \/ Request_default
  \/ \E b \in BufArgs, l \in LocArgs, u \in {NULL, UrlLoc} : Request_handles(b, l, u)
  \/ \E m \in CtorMethods, v \in CtorVersions, o \in UrlOutcomes :
       Request_standalone(m, v, o)
  \/ \E b \in BufArgs, l \in LocArgs, u \in {NULL, UrlLoc} : init(b, l, u)
  \/ getMethod
  \/ getVersion
  \/ getUrl
  \/ getHeaders
  \/ Request_dtor
  \/ \E tok \in MethodTokens, ver \in HttpVersion : EngineWrite(tok, ver)

Spec == Init /\ [][Next]_vars

(***************************************************************************)
(* Properties of the Request object (specification Spec).                   *)
(***************************************************************************)
Attached == state_.hdr_buf_ # NULL /\ state_.hdr_loc_ # NULL
ViaInit == ctor.kind \in {"default", "handles"}
NumCalls(name) ==
  Cardinality({i \in DOMAIN engineCalls : engineCalls[i].call = name})

\* C1: on an attached descriptor whose engine token is non-empty and not one
\* of the ten known tokens, every getMethod() returns HTTP_METHOD_UNKNOWN and
\* all the getMethod() calls together query the engine at most once.
C1_UnknownTokenQueriedAtMostOnce ==
  (/\ life = "alive" /\ ViaInit /\ Attached
   /\ engineChanged = FALSE
   /\ engine.token \notin KnownTokens \cup {"", NullStr})
  => /\ qMethod <= 1
     /\ last.op = "getMethod" => last.ret = HTTP_METHOD_UNKNOWN

\* C2: init on a descriptor that holds a buffer handle or a location handle
\* changes no field of the descriptor, whatever its arguments; it only logs
\* one error.
C2_ReinitChangesNothing ==
  [][ (/\ life = "alive"
       /\ (state_.hdr_buf_ # NULL \/ state_.hdr_loc_ # NULL)
       /\ last'.op = "init")
      => /\ state_' = state_
         /\ errors' = errors + 1
         /\ UNCHANGED <<life, engine, qMethod, qVersion, engineCalls>> ]_vars

C2_Witness ==
  /\ ctor.kind = "standalone" /\ ctor.url = "parsed"
  /\ last.op = "init" /\ errors = 1
  /\ state_.hdr_buf_ = PrivateBuf /\ state_.url_

\* C3: a descriptor built by the standalone constructor owns its private
\* buffer, and its destruction destroys that buffer exactly once, whatever
\* happened to the URL during construction.
C3_StandaloneBufferDestroyedOnce ==
  (ctor.kind = "standalone" /\ life = "destroyed")
  => /\ state_.destroy_buf_
     /\ NumCalls("TSMBufferDestroy") = 1

\* C4: a descriptor attached through init never destroys the engine's
\* buffer; its destruction releases at most the URL location, with the header
\* location as parent.
C4_AttachedNeverDestroysBuffer ==
  ViaInit
  => /\ NumCalls("TSMBufferDestroy") = 0
     /\ ~state_.destroy_buf_
     /\ life # "destroyed" => engineCalls = <<>>
     /\ life = "destroyed" =>
          engineCalls =
            IF state_.url_loc_ # NULL
            THEN << [call |-> "TSHandleMLocRelease", bufp |-> state_.hdr_buf_,
                     parent |-> state_.hdr_loc_, mloc |-> state_.url_loc_] >>
            ELSE << >>

C4_Witness ==
  /\ ctor.kind = "default" /\ life = "destroyed"
  /\ qMethod >= 1 /\ qVersion >= 1
  /\ Len(engineCalls) = 1 /\ engineCalls[1].parent = EngineLoc

\* C8: a descriptor built by the standalone constructor with method m and
\* version v returns m from every getMethod() and v from every getVersion(),
\* and never queries the engine for either.
C8_StandaloneReturnsArguments ==
  ctor.kind = "standalone"
  => /\ qMethod = 0 /\ qVersion = 0
     /\ last.op = "getMethod" => last.ret = ctor.method
     /\ last.op = "getVersion" => last.ret = ctor.version

C8_Witness ==
  /\ ctor.kind = "standalone"
  /\ ctor.method = HTTP_METHOD_UNKNOWN /\ ctor.version = "HTTP_VERSION_1_1"
  /\ errors = MaxErrors      \* after rejected init calls
  /\ last.op = "getVersion" /\ last.ret = "HTTP_VERSION_1_1"

\* C9: standalone construction with a URL the engine fails to parse gives a
\* usable descriptor: the Url is not initialized, the headers are detached,
\* getMethod() and getVersion() return the arguments, an error is logged.
C9_ParseFailureStillUsable ==
  (ctor.kind = "standalone" /\ ctor.url = "parse_failed")
  => /\ life \in {"alive", "destroyed"}
     /\ ~state_.url_
     /\ state_.headers_ = "detached"
     /\ errors >= 1
     /\ last.op = "getUrl" => last.ret = "url_unset"
     /\ last.op = "getHeaders" => last.ret = "detached"
     /\ last.op = "getMethod" => last.ret = ctor.method
     /\ last.op = "getVersion" => last.ret = ctor.version

C9_Witness ==
  /\ ctor.kind = "standalone" /\ ctor.url = "parse_failed"
  /\ ctor.method = "HTTP_METHOD_POST"
  /\ last.op = "getMethod" /\ last.ret = "HTTP_METHOD_POST"
  /\ errors = 1

\* C10: once method_ is initialized, no step changes it, and every later
\* getMethod() returns it without a query of the engine, even after the
\* engine's token has changed.
C10_CachedMethodIsNeverRecomputed ==
  [][ (life = "alive" /\ state_.method_.initialized)
      => /\ state_'.method_ = state_.method_
         /\ last'.op = "getMethod" =>
              (last'.ret = state_.method_.value /\ qMethod' = qMethod) ]_vars

C10_Witness ==
  /\ ViaInit /\ Attached
  /\ state_.method_ = [value |-> "HTTP_METHOD_GET", initialized |-> TRUE]
  /\ engineChanged /\ engine.token = "POST"
  /\ last.op = "getMethod" /\ last.ret = "HTTP_METHOD_GET"
  /\ qMethod = 1

(***************************************************************************)
(* Properties of the hook protocol (specification SpecTxn).                 *)
(***************************************************************************)

\* C5: whatever the number of handlers the dispatcher invokes for a firing,
\* the engine gets at most one continue signal for it, and exactly one once
\* every invoked handler has made its resume call.
C5_OneSignalPerFiring ==
  \A t \in Txns :
    txn[t].hook # "none"
    => /\ txn[t].engineSignals <= 1
       /\ (txn[t].state = "Resumed") = (txn[t].engineSignals = 1)
       /\ txn[t].pending = 0 => txn[t].engineSignals = 1

C5_Witness ==
  /\ lastFire.t = "t1" /\ lastFire.nDefault = 1 /\ lastFire.nAsync = 1
  /\ txn["t1"].hook = lastFire.hook
  /\ txn["t1"].pending = 0 /\ txn["t1"].engineSignals = 1

\* C6: each default handler of Plugin calls resume exactly once before it
\* returns, so a firing that invoked one is Resumed when the dispatcher's
\* call returns.
C6_DefaultHandlerResumesInline ==
  (lastFire.t # "none" /\ lastFire.nDefault >= 1)
  => /\ lastFire.resumeCalls = lastFire.nDefault
     /\ txn[lastFire.t].hook = lastFire.hook
     /\ txn[lastFire.t].state = "Resumed"
     /\ txn[lastFire.t].engineSignals = 1

C6_Witness ==
  /\ lastFire.hook = "HOOK_OS_DNS"
  /\ lastFire.nDefault = 1 /\ lastFire.nAsync = 0 /\ lastFire.resumeCalls = 1
  /\ txn[lastFire.t].state = "Resumed"

\* The fixed phase sequence.
PhaseSequence ==
  << "HOOK_READ_REQUEST_HEADERS_PRE_REMAP", "HOOK_READ_REQUEST_HEADERS_POST_REMAP",
     "HOOK_SEND_REQUEST_HEADERS", "HOOK_READ_RESPONSE_HEADERS",
     "HOOK_SEND_RESPONSE_HEADERS" >>
Position(h) == CHOOSE i \in DOMAIN PhaseSequence : PhaseSequence[i] = h

\* C7: in one Transaction the resume events of the five ordered phases come
\* in the fixed order, and no phase is dispatched while a phase of the same
\* Transaction awaits its resume; other Transactions interleave freely.
C7_PhasesResumeInOrder ==
  [][ \A t \in Txns :
        /\ signals'[t] # signals[t] =>
             (IF signals[t] = "none" THEN TRUE
              ELSE Position(signals[t]) < Position(signals'[t]))
        /\ (lastFire' # lastFire /\ lastFire'.t = t) =>
             (txn[t].state # "Suspended" /\ signals[t] = fired[t]) ]_vars

C7_Witness ==
  /\ signals["t1"] = "HOOK_SEND_RESPONSE_HEADERS"
  /\ fired["t2"] = "HOOK_READ_REQUEST_HEADERS_PRE_REMAP"
  /\ txn["t2"].state = "Suspended"
  /\ signals["t2"] = "none"

(***************************************************************************)
(* Properties of the comparator (specification SpecCmp).                    *)
(***************************************************************************)
FoldedString(s) == [i \in DOMAIN s |-> IF s[i] >= 65 /\ s[i] <= 90 THEN s[i] + 32 ELSE s[i]]

\* C11: compare(a, b) is 0 exactly when a and b are equal after ASCII case
\* folding of every byte, operator()(a, b) is true exactly when compare(a, b)
\* is negative, and operator() is a strict weak order: irreflexive,
\* transitive, and with a transitive incomparability.
C11_ComparatorIsStrictWeakOrder ==
  cmp.pc = "compared"
  => /\ (cmp.ab = 0) = (FoldedString(cmp.a) = FoldedString(cmp.b))
     /\ cmp.lt_ab = (cmp.ab < 0)
     /\ cmp.lt_ba = (cmp.ba < 0)
     /\ cmp.aa = 0 /\ ~cmp.lt_aa
     /\ (cmp.lt_ab /\ cmp.lt_bc) => cmp.lt_ac
     /\ (~cmp.lt_ab /\ ~cmp.lt_ba /\ ~cmp.lt_bc /\ ~cmp.lt_cb)
          => (~cmp.lt_ac /\ ~cmp.lt_ca)
     /\ cmp.lt_ab => ~cmp.lt_ba

C11_Witness ==
  /\ cmp.pc = "compared"
  /\ cmp.a = <<65, 98>> /\ cmp.b = <<97, 98>> /\ cmp.c = <<97, 200>>
  /\ cmp.ab = 0 /\ cmp.lt_bc /\ cmp.lt_ac

\* --------------------------------------------------------------------------
\* C12: on a descriptor attached to engine handles, getVersion asks the
\* version decoder at most once whatever the decoder answers,
\* HTTP_VERSION_UNKNOWN included: the first call stores and returns the
\* decoder's answer, and every later call returns that stored value without
\* another query, also after the header changed.
C12_VersionDecodedAtMostOnce ==
  [][ (life = "alive" /\ ViaInit)
      => /\ qVersion' <= 1
         /\ state_.version_.initialized => state_'.version_ = state_.version_
         /\ (Attached /\ last'.op = "getVersion")
              => IF ~state_.version_.initialized
                 THEN /\ qVersion' = qVersion + 1
                      /\ state_'.version_ = InitializableValue(engine.version, TRUE)
                      /\ last'.ret = engine.version
                 ELSE /\ qVersion' = qVersion
                      /\ last'.ret = state_.version_.value ]_vars

\* The decoder answered UNKNOWN, the header then changed to HTTP/1.1, and a
\* later getVersion still returned UNKNOWN after one query.
C12_Witness ==
  /\ life = "alive" /\ ViaInit /\ Attached
  /\ state_.version_ = InitializableValue(HTTP_VERSION_UNKNOWN, TRUE)
  /\ engineChanged /\ engine.version = "HTTP_VERSION_1_1"
  /\ last.op = "getVersion" /\ last.ret = HTTP_VERSION_UNKNOWN
  /\ qVersion = 1

\* --------------------------------------------------------------------------
\* C13 (as stated): when the standalone constructor created the URL location
\* but the parse of the URL string failed, the URL location handle is null
\* after construction.
C13_ParseFailureLeavesUrlLocNull ==
  (life # "unborn" /\ ctor.kind = "standalone" /\ ctor.url = "parse_failed")
    => state_.url_loc_ = NULL

\* C13 (amended): when the standalone constructor created the URL location
\* but the parse of the URL string failed, the URL location handle keeps the
\* location the engine created, only the Url view stays uninitialized, and the
\* destructor releases that location before it destroys the private buffer.
C13_ParseFailureKeepsUrlLoc ==
  (life # "unborn" /\ ctor.kind = "standalone" /\ ctor.url = "parse_failed")
    => /\ state_.url_loc_ = UrlLoc
       /\ ~state_.url_
       /\ life = "destroyed"
            => engineCalls = << TSHandleMLocRelease(PrivateBuf, NULL, UrlLoc),
                                TSMBufferDestroy(PrivateBuf) >>

C13_Witness ==
  /\ life = "destroyed" /\ ctor.kind = "standalone" /\ ctor.url = "parse_failed"
  /\ state_.url_loc_ = UrlLoc
  /\ Len(engineCalls) = 2

\* --------------------------------------------------------------------------
\* C14: init on an empty descriptor whose URL extraction yields no location
\* stores both handles as given, attaches the header container, logs one error,
\* leaves the Url view and the URL location unset and the owns-buffer flag
\* false; destroying a descriptor in that condition makes no engine call.
C14_InitWithoutUrlLocation ==
  [][ /\ ( /\ life = "alive" /\ ViaInit
           /\ state_.hdr_buf_ = NULL /\ state_.hdr_loc_ = NULL
           /\ last'.op \in {"init", "Request(buf,loc)"}
           /\ state_'.url_loc_ = NULL )
         => /\ state_'.hdr_buf_ = last'.ret[1]
            /\ state_'.hdr_loc_ = last'.ret[2]
            /\ state_'.headers_ = "attached"
            /\ ~state_'.url_
            /\ ~state_'.destroy_buf_
            /\ errors' = errors + 1
      /\ ( /\ ViaInit /\ state_.url_loc_ = NULL /\ last'.op = "~Request" )
         => /\ engineCalls' = << >>
            /\ ~state_.url_ /\ ~state_.destroy_buf_ ]_vars

\* A descriptor attached to both engine handles without a URL location was
\* destroyed, and the engine saw no call.
C14_Witness ==
  /\ life = "destroyed" /\ ctor.kind = "default"
  /\ state_.hdr_buf_ = EngineBuf /\ state_.hdr_loc_ = EngineLoc
  /\ state_.url_loc_ = NULL /\ state_.headers_ = "attached"
  /\ engineCalls = << >>

\* --------------------------------------------------------------------------
\* C15: the first getMethod on an attached descriptor maps the engine's token
\* through a fixed table: each of the ten listed tokens gives its own enum
\* value, and an unlisted, null or zero-length token gives
\* HTTP_METHOD_UNKNOWN without failing.
MethodTable ==
  [tok \in MethodTokens |->
     CASE tok = "GET"       -> "HTTP_METHOD_GET"
       [] tok = "POST"      -> "HTTP_METHOD_POST"
       [] tok = "HEAD"      -> "HTTP_METHOD_HEAD"
       [] tok = "CONNECT"   -> "HTTP_METHOD_CONNECT"
       [] tok = "DELETE"    -> "HTTP_METHOD_DELETE"
       [] tok = "ICP_QUERY" -> "HTTP_METHOD_ICP_QUERY"
       [] tok = "OPTIONS"   -> "HTTP_METHOD_OPTIONS"
       [] tok = "PURGE"     -> "HTTP_METHOD_PURGE"
       [] tok = "PUT"       -> "HTTP_METHOD_PUT"
       [] tok = "TRACE"     -> "HTTP_METHOD_TRACE"
       [] OTHER             -> HTTP_METHOD_UNKNOWN]

C15_FirstGetMethodFollowsTable ==
  [][ ( /\ life = "alive" /\ ViaInit /\ Attached
        /\ ~state_.method_.initialized
        /\ last'.op = "getMethod" )
      => /\ last'.ret = MethodTable[engine.token]
         /\ qMethod' = qMethod + 1
         /\ life' = "alive" ]_vars

C15_Witness ==
  /\ life = "alive" /\ ViaInit /\ Attached
  /\ qMethod = 1 /\ ~engineChanged
  /\ engine.token = "PURGE"
  /\ last.op = "getMethod" /\ last.ret = "HTTP_METHOD_PURGE"

\* --------------------------------------------------------------------------
\* C16: on a descriptor that lacks the buffer or the location handle and whose
\* method and version were never initialized, getMethod and getVersion return
\* the UNKNOWN value on every call, never ask the engine, and never mark the
\* value initialized.
C16_DetachedAccessorsStayUnknown ==
  (life # "unborn" /\ ViaInit /\ ~Attached)
    => /\ qMethod = 0 /\ qVersion = 0
       /\ ~state_.method_.initialized /\ ~state_.version_.initialized
       /\ last.op = "getMethod" => last.ret = HTTP_METHOD_UNKNOWN
       /\ last.op = "getVersion" => last.ret = HTTP_VERSION_UNKNOWN

\* A descriptor holding only the buffer handle answered getMethod.
C16_Witness ==
  /\ life = "alive" /\ ctor.kind = "default"
  /\ state_.hdr_buf_ = EngineBuf /\ state_.hdr_loc_ = NULL
  /\ last.op = "getMethod" /\ last.ret = HTTP_METHOD_UNKNOWN
  /\ qMethod = 0

\* --------------------------------------------------------------------------
\* C17: after any sequence of init calls on a default-constructed descriptor
\* the stored (buffer, location) pair is the argument pair of the first init
\* call that had a non-null argument, or (null, null) if there was none; an
\* init with both arguments null is accepted and does not use up the
\* attachment.
C17_FirstNonNullInitWins ==
  (life # "unborn" /\ ViaInit)
    => /\ << state_.hdr_buf_, state_.hdr_loc_ >>
            = IF ctor.attach = << >> THEN << NULL, NULL >> ELSE ctor.attach
       /\ ctor.nullInit => state_.headers_ = "attached"

\* init(null, null) was accepted, a later init attached both handles, and a
\* still later init with other arguments changed nothing.
C17_Witness ==
  /\ life = "alive" /\ ctor.kind = "default"
  /\ ctor.nullInit
  /\ ctor.attach = << EngineBuf, EngineLoc >>
  /\ last.op = "init" /\ last.ret = << NULL, EngineLoc >>
  /\ state_.hdr_buf_ = EngineBuf /\ state_.hdr_loc_ = EngineLoc

IsRelease(i) == engineCalls[i].call = "TSHandleMLocRelease"
IsDestroy(i) == engineCalls[i].call = "TSMBufferDestroy"

C19_ReleaseBeforeDestroy ==
  /\ life # "destroyed" => engineCalls = << >>
  /\ life = "destroyed"
       => LET rel == {i \in DOMAIN engineCalls : IsRelease(i)}
              des == {i \in DOMAIN engineCalls : IsDestroy(i)}
          IN /\ Cardinality(rel) <= 1
             /\ (rel # {}) = (state_.url_loc_ # NULL)
             /\ \A i \in rel :
                  engineCalls[i] =
                    TSHandleMLocRelease(state_.hdr_buf_,
                                        IF state_.destroy_buf_ THEN NULL
                                        ELSE state_.hdr_loc_,
                                        state_.url_loc_)
             /\ \A i \in des :
                  /\ i = Len(engineCalls)
                  /\ \E j \in rel : j < i

\* A standalone descriptor was destroyed: release with a null parent, then
\* the destruction of the buffer.
C19_Witness ==
  /\ life = "destroyed" /\ state_.destroy_buf_
  /\ Len(engineCalls) = 2
  /\ engineCalls[1] = TSHandleMLocRelease(PrivateBuf, NULL, UrlLoc)
  /\ engineCalls[2].call = "TSMBufferDestroy"

\* --------------------------------------------------------------------------
\* C20: getMethod changes nothing of the descriptor but the method value, and
\* getVersion nothing but the version value.
C20_AccessorsFrame ==
  [][ /\ last'.op = "getMethod"
        => /\ state_' = [state_ EXCEPT !.method_ = state_'.method_]
           /\ qVersion' = qVersion /\ engineCalls' = engineCalls
           /\ life' = life /\ engine' = engine
      /\ last'.op = "getVersion"
        => /\ state_' = [state_ EXCEPT !.version_ = state_'.version_]
           /\ qMethod' = qMethod /\ engineCalls' = engineCalls
           /\ life' = life /\ engine' = engine /\ errors' = errors ]_vars

\* getVersion asked the engine on a descriptor whose method was cached.
C20_Witness ==
  /\ life = "alive" /\ ViaInit /\ Attached
  /\ state_.method_ = InitializableValue("HTTP_METHOD_POST", TRUE)
  /\ state_.version_ = InitializableValue("HTTP_VERSION_1_1", TRUE)
  /\ qMethod = 1 /\ qVersion = 1
  /\ last.op = "getVersion" /\ last.ret = "HTTP_VERSION_1_1"
====
